---------------------------- MODULE Spec2Model ----------------------------
(* A model of ckanext/socrata/plugin.py: the Socrata harvester's            *)
(* gather_stage (paged discovery, one HarvestObject per descriptor) and      *)
(* import_stage (current-flag bookkeeping, existence check, build,           *)
(* package_create / package_update).                                         *)
EXTENDS Integers, Sequences, FiniteSets, TLC

(***************************************************************************)
(* Bounds of the model.                                                    *)
(***************************************************************************)
MaxObjs == 2        \* harvest objects ever stored
MaxPageLen == 2     \* descriptors in one catalog response
MaxRequests == 3    \* page requests of one gather_stage call
MaxJobs == 1        \* harvest jobs (gather_stage calls)
MaxImports == 3     \* import_stage calls
MaxTags == 2        \* entries of a descriptor's tags list, and of its domain_tags

(***************************************************************************)
(* Values.                                                                 *)
(***************************************************************************)
MISSING == "MISSING"          \* a key that is absent from a dict
None == 0                     \* Python None where an object id is expected
NoContent == <<"none">>       \* HarvestObject.content is None
EmptyContent == <<"empty">>   \* HarvestObject.content is '' (not JSON)

Workers == {1, 2}

\* gather_stage passes 100 as batch_number (the page size and offset step)
BatchNumber == 100

\* The classification of the descriptors the catalog serves
Classified == [tags |-> <<"Foo">>, domain_tags |-> <<"Bar">>]

\* Dataset descriptors the remote catalog serves: res['resource'] with the
\* keys id, name, attribution (a key may be absent), and res['classification'].
Descriptors ==
    { [id |-> "g1", name |-> "Budget", attribution |-> "Org",
       classification |-> Classified],
      [id |-> "g2", name |-> "Roads", attribution |-> "Org",
       classification |-> Classified],
      [id |-> "g2", name |-> "budget", attribution |-> "Org",
       classification |-> Classified],
      [id |-> "g1", name |-> "Budget", attribution |-> MISSING,
       classification |-> Classified],
      [id |-> MISSING, name |-> "Roads", attribution |-> "Org",
       classification |-> Classified] }

\* Harvest source URLs, as urlparse splits them: scheme://host[:port]path
SourceUrls ==
    { [scheme |-> "https", host |-> "data.example.com", port |-> "", path |-> ""],
      [scheme |-> "https", host |-> "data.example.com", port |-> "", path |-> "/"],
      [scheme |-> "https", host |-> "Data.Example.com", port |-> ":8443",
       path |-> "/catalog/"],
      [scheme |-> "http", host |-> "opendata.city.gov", port |-> "", path |-> "/"] }

\* The harvest source of the jobs of the model
HarvestSourceUrl ==
    [scheme |-> "https", host |-> "data.example.com", port |-> "", path |-> "/"]

\* Tags as the catalog spells them
TagNames == {"Foo", "foo", "Bar"}

\* ckan.lib.munge.munge_tag on the tags of the model: lower-cases the tag
munge_tag(t) ==
    CASE t = "Foo" -> "foo"
      [] t = "foo" -> "foo"
      [] t = "Bar" -> "bar"
      [] OTHER -> t

\* dict.get(key, default)
Get(dict, key, default) == IF key \in DOMAIN dict THEN dict[key] ELSE default

Guids == {"g1", "g2"}

\* json.dumps / json.loads of a descriptor
json_dumps(d) == <<"json", d>>
json_loads(c) == c[2]

\* json.loads raises ValueError on content that is not JSON
JsonLoadsRaises(c) == c[1] # "json"

\* ckan.lib.munge.munge_title_to_name on the titles of the model: lower-cases
\* the title, so distinct titles can give one name.
munge_title_to_name(t) ==
    CASE t = "Budget" -> "budget"
      [] t = "budget" -> "budget"
      [] t = "Roads" -> "roads"
      [] OTHER -> t

SeqsUpTo(S, n) == UNION { [1..k -> S] : k \in 0..n }

VARIABLES
    objects,        \* the HarvestObject table: id = index; guid, job, content, current
    packages,       \* active local datasets: id = index; name, identifier, title
    gather_errors,  \* HarvestGatherError rows: the job each was saved against
    object_errors,  \* HarvestObjectError rows: [obj, stage]
    jobs,           \* harvest jobs started so far
    g,              \* the running gather_stage call
    imp,            \* the import_stage call of each worker
    nimports,       \* import_stage calls started so far
    last_created,   \* content whose import made the newest change to packages, if a create
    imported,       \* guids that had an import_stage call return True
    build_in,       \* _build_package_dict called on its own: descriptor and source URL
    build_out,      \* and what that call gave
    identifier_extra \* the store's schema keeps package_dict['identifier'] as an extra

bvars == <<build_in, build_out, identifier_extra>>

vars == <<objects, packages, gather_errors, object_errors, jobs, g, imp,
          nimports, last_created, imported, build_in, build_out,
          identifier_extra>>


(***************************************************************************)
(* The remote catalog: what one GET of the search endpoint can answer.     *)
(***************************************************************************)
Pages == SeqsUpTo(Descriptors, MaxPageLen)

Responses ==
    { [kind |-> "malformed", results |-> <<>>],      \* body is not JSON
      [kind |-> "error", results |-> <<>>] }         \* JSON with an 'error' field
    \cup { [kind |-> "results", results |-> p] : p \in Pages }

\* Python's None or a list, as _request_datasets_from_socrata returns it
NoneValue == [none |-> TRUE, list |-> <<>>]
ListValue(l) == [none |-> FALSE, list |-> l]

(***************************************************************************)
(* gather_stage                                                            *)
(***************************************************************************)
GatherIdle ==
    [pc |-> "idle", job |-> 0, current_offset |-> 0, datasets |-> <<>>,
     obj_ids |-> <<>>, offsets |-> <<>>, pages |-> <<>>, yielded |-> <<>>,
     errors_before |-> 0, objs_before |-> 0, save_failed |-> FALSE]

\* _request_datasets_from_socrata: the value returned for a response, and
\* whether a gather error is saved against the job.
RequestDatasetsMutNoError(resp) ==
    [ret |-> IF resp.kind = "malformed" THEN NoneValue ELSE ListValue(resp.results),
     save_gather_error |-> resp.kind = "malformed"]

_request_datasets_from_socrata(resp) ==
    IF resp.kind = "malformed"           \* api_response.json() raises JSONDecodeError
    THEN [ret |-> NoneValue, save_gather_error |-> TRUE]
    ELSE IF resp.kind = "error"          \* 'error' in api_json
    THEN [ret |-> NoneValue, save_gather_error |-> TRUE]
    ELSE [ret |-> ListValue(resp.results), save_gather_error |-> FALSE]

\* _page_datasets: `if datasets is None or len(datasets) == 0: raise StopIteration`
PagerStopsMutNoneOnly(datasets) == datasets.none

PagerStopsMutNever(datasets) == FALSE

PagerStops(datasets) == datasets.none \/ Len(datasets.list) = 0

\* _page_datasets: `current_offset = current_offset + batch_number`
NextOffsetMutByOne(current_offset, batch_number) == current_offset + 1

NextOffset(current_offset, batch_number) == current_offset + batch_number

\* gather_stage is entered for a new harvest job; _page_datasets starts at
\* current_offset = 0 and _make_harvest_objs at obj_ids = [].
GatherStart ==
    /\ g.pc = "idle"
    /\ jobs < MaxJobs
    /\ jobs' = jobs + 1
    /\ g' = [GatherIdle EXCEPT !.pc = "request", !.job = jobs + 1,
                               !.errors_before = Len(gather_errors),
                               !.objs_before = Len(objects)]
    /\ UNCHANGED <<objects, packages, gather_errors, object_errors, imp,
                   nimports, last_created, imported>>
    /\ UNCHANGED bvars

\* The offset at and beyond which the catalog has no dataset left
CatalogEnd == (MaxRequests - 1) * BatchNumber

\* The responses the catalog can give to the next request: a catalog holds
\* finitely many datasets, so a request at or beyond their count gets no
\* descriptor, and a page never holds more objects than the store bound allows.
CanAnswer(resp) ==
    /\ g.current_offset >= CatalogEnd => resp.results = <<>>
    /\ Len(objects) + Len(resp.results) <= MaxObjs

\* One turn of the `while True` loop of _page_datasets: a request at
\* current_offset, then stop, or advance the offset and start the for loop.
GatherRequest ==
    /\ g.pc = "request"
    /\ Len(g.pages) < MaxRequests
    /\ \E resp \in Responses :
        /\ CanAnswer(resp)
        /\ LET r == _request_datasets_from_socrata(resp)
               stop == PagerStops(r.ret)
           IN /\ gather_errors' = IF r.save_gather_error
                                  THEN Append(gather_errors, g.job)
                                  ELSE gather_errors
              /\ g' = [g EXCEPT
                         !.offsets = Append(@, g.current_offset),
                         !.pages = Append(@, resp),
                         !.pc = IF stop THEN "done"
                                ELSE IF r.ret.list = <<>> THEN "request"
                                ELSE "make",
                         !.datasets = IF stop THEN <<>> ELSE r.ret.list,
                         !.current_offset =
                             IF stop THEN @ ELSE NextOffset(@, BatchNumber)]
    /\ UNCHANGED <<objects, packages, object_errors, jobs, imp, nimports,
                   last_created, imported>>
    /\ UNCHANGED bvars

\* The descriptors the for loop of _page_datasets still has to yield
Remaining(datasets) == Tail(datasets)

\* obj.save(): the row is written, or the persistence layer raises
SaveOutcomes == {"saved", "failed"}

\* One descriptor is yielded by _page_datasets and consumed by the loop of
\* _make_harvest_objs: d['resource']['name'] and d['resource']['id'] are read
\* (KeyError when absent), the HarvestObject is saved (no handler around
\* obj.save(): its exception leaves gather_stage), its id appended.
GatherMakeObj ==
    /\ g.pc = "make"
    /\ \E outcome \in SaveOutcomes :
       LET d == Head(g.datasets)
           rest == Remaining(g.datasets)
       IN IF d.name = MISSING \/ d.id = MISSING
          THEN /\ g' = [g EXCEPT !.pc = "raised", !.yielded = Append(@, d)]
               /\ UNCHANGED objects
          ELSE IF outcome = "failed"
          THEN /\ g' = [g EXCEPT !.pc = "raised", !.yielded = Append(@, d),
                                  !.save_failed = TRUE]
               /\ UNCHANGED objects
          ELSE /\ objects' = Append(objects,
                       [guid |-> d.id, job |-> g.job,
                        content |-> json_dumps(d), current |-> FALSE])
               /\ g' = [g EXCEPT
                          !.yielded = Append(@, d),
                          !.obj_ids = Append(@, Len(objects) + 1),
                          !.datasets = rest,
                          !.pc = IF rest = <<>> THEN "request" ELSE "make"]
    /\ UNCHANGED <<packages, gather_errors, object_errors, jobs, imp,
                   nimports, last_created, imported>>
    /\ UNCHANGED bvars

\* gather_stage hands obj_ids (or the exception) to the harvest queue
GatherReturn ==
    /\ g.pc \in {"done", "raised"}
    /\ g' = GatherIdle
    /\ UNCHANGED <<objects, packages, gather_errors, object_errors, jobs, imp,
                   nimports, last_created, imported>>
    /\ UNCHANGED bvars

Gather == GatherStart \/ GatherRequest \/ GatherMakeObj \/ GatherReturn


(***************************************************************************)
(* The local store behind toolkit.get_action (CKAN's package actions).     *)
(***************************************************************************)
PackageIds == 1..Len(packages)

\* _get_existing_dataset: ids of the active packages that have an extra
\* `identifier` equal to guid
ExistingMatchesMutAny(guid) == PackageIds

ExistingMatches(guid) == { i \in PackageIds : packages[i].identifier = guid }

\* _get_existing_dataset: None without a match, else package_show of
\* datasets[0]; the query has no ORDER BY, so datasets[0] is any match.
_get_existing_dataset(guid) ==
    IF ExistingMatches(guid) = {} THEN {None} ELSE ExistingMatches(guid)

\* package_update finds the package to change by data_dict['id'], or by
\* data_dict['name'] when the dict has no id.
PackageUpdateTarget(package_dict) ==
    IF "id" \in DOMAIN package_dict
    THEN { i \in PackageIds : i = package_dict["id"] }
    ELSE { i \in PackageIds : packages[i].name = package_dict.name }

\* package_create refuses a name another package has
NameInUse(name) == \E i \in PackageIds : packages[i].name = name

\* What the store keeps of a package_dict. The dict carries `identifier`
\* as a top-level key and 'extras': [] (lines 95-96); the store's schema,
\* not the plugin, decides whether that key becomes the `identifier` extra
\* _get_existing_dataset queries.
StoredRecord(package_dict) ==
    [name |-> package_dict.name,
     identifier |-> IF identifier_extra THEN package_dict.identifier
                    ELSE MISSING,
     title |-> package_dict.title]

(***************************************************************************)
(* import_stage                                                            *)
(***************************************************************************)
NoDict == [name |-> MISSING]

ImportIdle ==
    [pc |-> "idle", harvest_object |-> None, previous_object |-> None,
     existing_dataset |-> None, package_dict |-> NoDict, result |-> "none",
     \* what the attempt did, for the properties below
     call |-> "none", calls |-> 0, current_before |-> {}, twice |-> FALSE,
     store_before |-> <<>>, store_at_check |-> <<>>, errors_before |-> 0,
     \* the worker's model.Session: writes of `current` not yet committed,
     \* as pairs <<object, value>>
     session |-> {},
     rolled_back |-> FALSE]

\* `HarvestObject.current is True` is evaluated by Python when the query is
\* built: the identity test of a column attribute with True is False, for
\* every row.
CurrentIsTrue(o) == FALSE

\* model.Session.query(HarvestObject).filter(guid == ...).filter(...).first()
PreviousObjectRowsMutAnyGuid(guid) ==
    { i \in 1..Len(objects) : objects[i].current }

PreviousObjectRows(guid) ==
    { i \in 1..Len(objects) : objects[i].guid = guid /\ CurrentIsTrue(objects[i]) }

PreviousObject(guid) ==
    IF PreviousObjectRows(guid) = {} THEN {None} ELSE PreviousObjectRows(guid)

\* _build_package_dict reads res['resource']['name'], ['attribution'], ['id']
\* and res['classification'] without a default: KeyError when one is absent
BuildRaises(res) ==
    \/ res.name = MISSING \/ res.attribution = MISSING \/ res.id = MISSING
    \/ "classification" \notin DOMAIN res

\* urlparse(url).hostname: the host in lower case, without the port
LowerHost(host) ==
    CASE host = "Data.Example.com" -> "data.example.com"
      [] OTHER -> host

UrlHostnameMutNetloc(url) == url.host \o url.port

UrlHostname(url) == LowerHost(url.host)

\* DOWNLOAD_ENDPOINT_TEMPLATE.format(domain=..., resource_id=...)
DownloadEndpoint(domain, resource_id) ==
    "https://" \o domain \o "/api/views/" \o resource_id
        \o "/rows.csv?accessType=DOWNLOAD"

\* The list comprehension of lines 102-105: one {'name': munge_tag(t)} for
\* each entry of tags + domain_tags, in order
BuildTags(classification) ==
    LET all == Get(classification, "tags", <<>>)
                   \o Get(classification, "domain_tags", <<>>)
    IN [i \in 1..Len(all) |-> [name |-> munge_tag(all[i])]]

_build_package_dict(res, source_url) ==
    [title |-> res.name,
     name |-> munge_title_to_name(res.name),
     author |-> res.attribution,
     identifier |-> res.id,
     tags |-> BuildTags(res.classification),
     resources |-> <<[url |-> DownloadEndpoint(UrlHostname(source_url), res.id),
                      format |-> "CSV"]>>]

\* `if existing_dataset:` chooses package_update, else package_create
TakesUpdatePath(existing_dataset) == existing_dataset # None

\* _save_object_error(message, harvest_object, 'Import')
SaveObjectErrorMutTwice(errors, o) ==
    errors \o <<[obj |-> o, stage |-> "Import"], [obj |-> o, stage |-> "Import"]>>

SaveObjectError(errors, o) == Append(errors, [obj |-> o, stage |-> "Import"])

\* `if harvest_object.content is None`
RejectsContent(content) == content = NoContent

CurrentOfGuid(guid) ==
    { i \in 1..Len(objects) : objects[i].guid = guid /\ objects[i].current }

\* Lines 237-251: the two validity checks, then the query for the last
\* harvested object of the guid.
ImportBegin(w, o) ==
    /\ imp[w].pc = "idle"
    /\ nimports < MaxImports
    /\ nimports' = nimports + 1
    /\ IF o = None                                  \* `if not harvest_object`
       THEN /\ imp' = [imp EXCEPT ![w] =
                         [ImportIdle EXCEPT !.pc = "done", !.result = "False",
                                            !.errors_before = Len(object_errors)]]
            /\ UNCHANGED object_errors
       ELSE IF RejectsContent(objects[o].content)   \* `content is None`
       THEN /\ object_errors' = SaveObjectError(object_errors, o)
            /\ imp' = [imp EXCEPT ![w] =
                         [ImportIdle EXCEPT !.pc = "done", !.result = "False",
                                            !.harvest_object = o,
                                            !.errors_before = Len(object_errors)]]
       ELSE /\ \E p \in PreviousObject(objects[o].guid) :
                 imp' = [imp EXCEPT ![w] =
                           [ImportIdle EXCEPT
                              !.pc = "flip_previous",
                              !.harvest_object = o,
                              !.previous_object = p,
                              !.current_before = CurrentOfGuid(objects[o].guid),
                              !.twice = (last_created = objects[o].content),
                              !.store_before = packages,
                              !.errors_before = Len(object_errors)]]
            /\ UNCHANGED object_errors
    /\ UNCHANGED <<objects, packages, gather_errors, jobs, g, last_created,
                   imported>>
    /\ UNCHANGED bvars

\* `obj.current = value; obj.add()`: the attribute is set and the object
\* put in the session; nothing is committed.
SessionWrite(session, o, value) ==
    { p \in session : p[1] # o } \cup { <<o, value>> }

\* Session.commit(): the pending writes reach the HarvestObject table
SessionCommit(objs, session) ==
    [i \in DOMAIN objs |->
        IF \E p \in session : p[1] = i
        THEN [objs[i] EXCEPT !.current = (<<i, TRUE>> \in session)]
        ELSE objs[i]]

\* Lines 254-256: `if previous_object: previous_object.current = False`
ImportFlipPrevious(w) ==
    /\ imp[w].pc = "flip_previous"
    /\ imp' = [imp EXCEPT
                 ![w].pc = "flag_current",
                 ![w].session =
                     IF imp[w].previous_object # None
                     THEN SessionWrite(@, imp[w].previous_object, FALSE)
                     ELSE @]
    /\ UNCHANGED <<objects, packages, gather_errors, object_errors, jobs, g,
                   nimports, last_created, imported>>
    /\ UNCHANGED bvars

\* Lines 259-260: `harvest_object.current = True; harvest_object.add()`
MarkCurrentMutNoop(session, o) == session

MarkCurrent(session, o) == SessionWrite(session, o, TRUE)

ImportFlagCurrent(w) ==
    /\ imp[w].pc = "flag_current"
    /\ imp' = [imp EXCEPT
                 ![w].pc = "existing",
                 ![w].session = MarkCurrent(@, imp[w].harvest_object)]
    /\ UNCHANGED <<objects, packages, gather_errors, object_errors, jobs, g,
                   nimports, last_created, imported>>
    /\ UNCHANGED bvars

\* Lines 262-265: json.loads (a ValueError leaves import_stage uncaught),
\* then _get_existing_dataset(harvest_object.guid)
ImportExisting(w) ==
    /\ imp[w].pc = "existing"
    /\ LET guid == objects[imp[w].harvest_object].guid
       IN IF JsonLoadsRaises(objects[imp[w].harvest_object].content)
          THEN imp' = [imp EXCEPT ![w].pc = "raised",
                                  ![w].result = "ValueError"]
          ELSE \E e \in _get_existing_dataset(guid) :
                 imp' = [imp EXCEPT ![w].pc = "build",
                                    ![w].existing_dataset = e,
                                    ![w].store_at_check = packages]
    /\ UNCHANGED <<objects, packages, gather_errors, object_errors, jobs, g,
                   nimports, last_created, imported>>
    /\ UNCHANGED bvars

\* Line 272: _build_package_dict; a KeyError leaves import_stage uncaught
ImportBuild(w) ==
    /\ imp[w].pc = "build"
    /\ LET res == json_loads(objects[imp[w].harvest_object].content)
       IN IF BuildRaises(res)
          THEN imp' = [imp EXCEPT ![w].pc = "raised", ![w].result = "KeyError"]
          ELSE imp' = [imp EXCEPT ![w].pc = "reconcile",
                                  ![w].package_dict =
                                      _build_package_dict(res, HarvestSourceUrl)]
    /\ UNCHANGED <<objects, packages, gather_errors, object_errors, jobs, g,
                   nimports, last_created, imported>>
    /\ UNCHANGED bvars

\* Lines 274-302: package_update or package_create inside try/except
\* Exception; the action raises (any store error, a name in use on create, no
\* package to update) or succeeds. The action and _save_object_error work on
\* the worker's session: a successful action commits it; a failing one may
\* have rolled it back (the store's code decides) before _save_object_error
\* commits what is left.
ImportReconcile(w) ==
    /\ imp[w].pc = "reconcile"
    /\ LET o == imp[w].harvest_object
           pd == imp[w].package_dict
           update == TakesUpdatePath(imp[w].existing_dataset)
           canSucceed == IF update THEN PackageUpdateTarget(pd) # {}
                         ELSE ~NameInUse(pd.name)
       IN \E raises \in BOOLEAN, rollback \in BOOLEAN :
            /\ ~raises => (canSucceed /\ ~rollback)
            /\ IF raises
               THEN /\ object_errors' = SaveObjectError(object_errors, o)
                    /\ objects' = IF rollback THEN objects
                                  ELSE SessionCommit(objects, imp[w].session)
                    /\ imp' = [imp EXCEPT ![w].pc = "done",
                                 ![w].result = "False",
                                 ![w].call = IF update THEN "update" ELSE "create",
                                 ![w].calls = @ + 1,
                                 ![w].session = {},
                                 ![w].rolled_back = rollback]
                    /\ UNCHANGED <<packages, last_created, imported>>
               ELSE /\ packages' =
                         IF update
                         THEN [i \in PackageIds |->
                                 IF i \in PackageUpdateTarget(pd)
                                 THEN StoredRecord(pd) ELSE packages[i]]
                         ELSE Append(packages, StoredRecord(pd))
                    /\ last_created' = IF update THEN NoContent
                                       ELSE objects[o].content
                    /\ imported' = imported \cup {objects[o].guid}
                    /\ objects' = SessionCommit(objects, imp[w].session)
                    /\ imp' = [imp EXCEPT ![w].pc = "done",
                                 ![w].result = "True",
                                 ![w].call = IF update THEN "update" ELSE "create",
                                 ![w].calls = @ + 1,
                                 ![w].session = {}]
                    /\ UNCHANGED object_errors
    /\ UNCHANGED <<gather_errors, jobs, g, nimports>>
    /\ UNCHANGED bvars

\* import_stage has returned (or raised): the worker takes the next object.
\* After an uncaught exception the session still holds the writes of the
\* attempt; the caller commits them with its next write or discards them.
ImportReturn(w) ==
    /\ imp[w].pc \in {"done", "raised"}
    /\ \E commits \in BOOLEAN :
          /\ imp[w].session = {} => commits
          /\ objects' = IF commits THEN SessionCommit(objects, imp[w].session)
                        ELSE objects
    /\ imp' = [imp EXCEPT ![w] = ImportIdle]
    /\ UNCHANGED <<packages, gather_errors, object_errors, jobs, g,
                   nimports, last_created, imported>>
    /\ UNCHANGED bvars

ObjectArgs == (1..Len(objects)) \cup {None}

\* The local store before the first harvest: empty, or holding the dataset of
\* an earlier harvest (never two records of one identifier).
InitialStores ==
    { <<>>, <<[name |-> "roads", identifier |-> "g2", title |-> "Roads"]>> }

\* _build_package_dict is not being called on its own
NoBuildInput == [res |-> [id |-> MISSING], source_url |-> HarvestSourceUrl]

NotBuilt == [status |-> "none", package_dict |-> NoDict]

\* The HarvestObject table before the first gather: empty, or holding an
\* object that was stored without content, or with the empty string as
\* content.
InitialObjects ==
    { <<>>,
      <<[guid |-> "g1", job |-> 0, content |-> NoContent, current |-> FALSE]>>,
      <<[guid |-> "g1", job |-> 0, content |-> EmptyContent, current |-> FALSE]>> }

Init ==
    /\ objects \in InitialObjects
    /\ packages \in InitialStores
    /\ gather_errors = <<>>
    /\ object_errors = <<>>
    /\ jobs = 0
    /\ g = GatherIdle
    /\ imp = [w \in Workers |-> ImportIdle]
    /\ nimports = 0
    /\ last_created = NoContent
    /\ imported = {}
    /\ build_in = NoBuildInput
    /\ build_out = NotBuilt
    /\ identifier_extra \in BOOLEAN

\* import_stage is called for a stored object, or without one
ImportBeginOne == \E o \in ObjectArgs : ImportBegin(1, o)

ImportBeginAny == \E w \in Workers, o \in ObjectArgs : ImportBegin(w, o)

\* Import attempts run one at a time (one worker); gather_stage is run by
\* another consumer of the queue, its steps interleave with theirs.
Next ==
    \/ GatherStart
    \/ GatherRequest
    \/ GatherMakeObj
    \/ GatherReturn
    \/ ImportBeginOne
    \/ ImportFlipPrevious(1)
    \/ ImportFlagCurrent(1)
    \/ ImportExisting(1)
    \/ ImportBuild(1)
    \/ ImportReconcile(1)
    \/ ImportReturn(1)

Spec == Init /\ [][Next]_vars

\* Import attempts of two workers interleave step by step.
NextConc ==
    \/ GatherStart
    \/ GatherRequest
    \/ GatherMakeObj
    \/ GatherReturn
    \/ ImportBeginAny
    \/ \E w \in Workers : ImportFlipPrevious(w)
    \/ \E w \in Workers : ImportFlagCurrent(w)
    \/ \E w \in Workers : ImportExisting(w)
    \/ \E w \in Workers : ImportBuild(w)
    \/ \E w \in Workers : ImportReconcile(w)
    \/ \E w \in Workers : ImportReturn(w)

SpecConc == Init /\ [][NextConc]_vars

\* gather_stage alone: every request returns and the loop of
\* _make_harvest_objs goes on to its next descriptor
NextGather ==
    \/ GatherStart
    \/ GatherRequest
    \/ GatherMakeObj
    \/ GatherReturn

SpecGather ==
    /\ Init
    /\ [][NextGather]_vars
    /\ WF_vars(GatherRequest)
    /\ WF_vars(GatherMakeObj)

(***************************************************************************)
(* _build_package_dict as a function of the descriptor and the source URL. *)
(***************************************************************************)
\* res['classification']: tags and domain_tags lists, either key may be absent
Classifications ==
    { [tags |-> t, domain_tags |-> d] :
          t \in SeqsUpTo(TagNames, MaxTags), d \in SeqsUpTo(TagNames, MaxTags) }
    \cup { [tags |-> t] : t \in SeqsUpTo(TagNames, MaxTags) }
    \cup { [domain_tags |-> d] : d \in SeqsUpTo(TagNames, MaxTags) }

BuildInputs ==
    { [res |-> [id |-> i, name |-> n, attribution |-> a, classification |-> c],
       source_url |-> u] :
          i \in Guids, n \in {"Budget", "Roads"}, a \in {"Org", MISSING},
          c \in Classifications, u \in SourceUrls }

InitBuild ==
    /\ objects = <<>>
    /\ packages = <<>>
    /\ gather_errors = <<>>
    /\ object_errors = <<>>
    /\ jobs = 0
    /\ g = GatherIdle
    /\ imp = [w \in Workers |-> ImportIdle]
    /\ nimports = 0
    /\ last_created = NoContent
    /\ imported = {}
    /\ build_in \in BuildInputs
    /\ build_out = NotBuilt
    /\ identifier_extra = TRUE

\* One call of _build_package_dict: the KeyError, or the package_dict
BuildApply ==
    /\ build_out.status = "none"
    /\ build_out' =
          IF BuildRaises(build_in.res)
          THEN [status |-> "raised", package_dict |-> NoDict]
          ELSE [status |-> "built",
                package_dict |-> _build_package_dict(build_in.res,
                                                     build_in.source_url)]
    /\ UNCHANGED <<objects, packages, gather_errors, object_errors, jobs, g,
                   imp, nimports, last_created, imported, build_in,
                   identifier_extra>>

NextBuild == BuildApply

SpecBuild == InitBuild /\ [][NextBuild]_vars


(***************************************************************************)
(* Properties.                                                             *)
(***************************************************************************)
\* Records of a store whose identifier is guid
RecordsFor(store, guid) == { i \in 1..Len(store) : store[i].identifier = guid }

ObjectIds == 1..Len(objects)

IsCurrentOf(guid) == { i \in ObjectIds : objects[i].guid = guid /\ objects[i].current }

\* The descriptor a worker's harvest object carries
DescriptorOf(w) == objects[imp[w].harvest_object].content[2]

\* C1: with imports run one at a time from a store without duplicates, every
\* guid that had an import return True has exactly one active record whose
\* identifier is that guid.
C1_OneRecordPerImportedGuid ==
    \A guid \in imported : Cardinality(RecordsFor(packages, guid)) = 1

\* C2: with imports run one at a time, at most one Harvest Object of a guid
\* has current = true.
C2_AtMostOneCurrent ==
    \A guid \in Guids : Cardinality(IsCurrentOf(guid)) <= 1

\* C3: when object A was current for the guid and the import of another
\* object B of that guid returns True, then A is not current, B is, and no
\* other object of the guid is.
C3_SupersedesPrevious ==
    \A w \in Workers :
        (/\ imp[w].pc = "done"
         /\ imp[w].result = "True"
         /\ imp[w].current_before \ {imp[w].harvest_object} # {})
        => IsCurrentOf(objects[imp[w].harvest_object].guid)
               = {imp[w].harvest_object}


\* The descriptors of the pages that precede the first empty or failing page
RECURSIVE BeforeFirstStop(_)
BeforeFirstStop(ps) ==
    IF ps = <<>> THEN <<>>
    ELSE IF Head(ps).kind # "results" \/ Head(ps).results = <<>> THEN <<>>
    ELSE Head(ps).results \o BeforeFirstStop(Tail(ps))

IsStopPage(resp) == resp.kind # "results" \/ resp.results = <<>>

IsPrefix(s, t) == Len(s) <= Len(t) /\ \A i \in 1..Len(s) : s[i] = t[i]

\* C4: the Pager yields exactly the concatenation, in order, of the pages
\* before the first empty or failing page: nothing skipped, nothing twice,
\* nothing of a later page, and no request after that page.
C4_PagerYieldsConcatenation ==
    /\ \A i \in 1..(Len(g.pages) - 1) : ~IsStopPage(g.pages[i])
    /\ g.pc \in {"request", "done"} => g.yielded = BeforeFirstStop(g.pages)
    /\ g.pc = "make" => g.yielded \o g.datasets = BeforeFirstStop(g.pages)
    /\ g.pc = "raised" => IsPrefix(g.yielded, BeforeFirstStop(g.pages))
    /\ g.pc = "done" => IsStopPage(g.pages[Len(g.pages)])

\* C4 witness: a gather that ended after two non-empty pages
C4_Witness ==
    /\ g.pc = "done"
    /\ Len(g.pages) = 3
    /\ Len(g.yielded) >= 2

\* C5: importing the same content again, the store unchanged since the
\* import that created its record, takes the update path and leaves the
\* number of records of the guid as it was.
C5_SecondImportUpdates ==
    \A w \in Workers :
        imp[w].twice =>
            /\ imp[w].pc # "raised"
            /\ imp[w].pc \in {"build", "reconcile", "done"}
                  => imp[w].existing_dataset # None
            /\ imp[w].pc = "done"
                  => /\ imp[w].call = "update"
                     /\ Cardinality(RecordsFor(packages,
                                       objects[imp[w].harvest_object].guid))
                        = Cardinality(RecordsFor(imp[w].store_before,
                                       objects[imp[w].harvest_object].guid))
                     /\ Len(packages) = Len(imp[w].store_before)

\* C6: at the Reconcile step zero matching records mean package_create and
\* one or more mean package_update; with two or more no record is added.
C6_DecisionByMatchCount ==
    \A w \in Workers :
        (imp[w].pc = "done" /\ imp[w].calls > 0) =>
            LET n == Cardinality(RecordsFor(imp[w].store_at_check,
                                    objects[imp[w].harvest_object].guid))
            IN /\ n = 0 => imp[w].call = "create"
               /\ n >= 1 => imp[w].call = "update"
               /\ n >= 2 => Len(packages) = Len(imp[w].store_at_check)

\* C6 witness: an attempt that found two records of its guid and updated
C6_Witness ==
    /\ imp[1].pc = "done"
    /\ imp[1].call = "update"
    /\ Cardinality(RecordsFor(imp[1].store_at_check,
                       objects[imp[1].harvest_object].guid)) >= 2

\* C7: a malformed or error-bearing page records one gather error against
\* the job, creates no object for that page or a later one, and the objects
\* of the earlier pages stay stored and are the ids returned.
C7_FailingPageKeepsEarlierObjects ==
    (g.pc = "done" /\ g.pages[Len(g.pages)].kind \in {"malformed", "error"}) =>
        /\ gather_errors = Append(SubSeq(gather_errors, 1, g.errors_before), g.job)
        /\ Len(objects) = g.objs_before + Len(BeforeFirstStop(g.pages))
        /\ g.obj_ids = [i \in 1..Len(BeforeFirstStop(g.pages)) |-> g.objs_before + i]
        /\ \A i \in 1..Len(g.obj_ids) :
              /\ objects[g.obj_ids[i]].content[2] = BeforeFirstStop(g.pages)[i]
              /\ objects[g.obj_ids[i]].job = g.job

\* C7 witness: a gather stopped by a failing page after it stored an object
C7_Witness ==
    /\ g.pc = "done"
    /\ g.pages[Len(g.pages)].kind = "error"
    /\ Len(g.obj_ids) >= 1

\* A descriptor without resource.id, resource.name or resource.attribution
LacksRequired(d) == d.id = MISSING \/ d.name = MISSING \/ d.attribution = MISSING

\* C8: the import of an object whose descriptor lacks a required field ends
\* Failed with an object error recorded, without a package_create or
\* package_update call and without an uncaught exception.
C8_MalformedDescriptorFails ==
    \A w \in Workers :
        (/\ imp[w].harvest_object # None
         /\ ~JsonLoadsRaises(objects[imp[w].harvest_object].content)
         /\ LacksRequired(DescriptorOf(w))) =>
            /\ imp[w].pc # "raised"
            /\ imp[w].calls = 0
            /\ imp[w].pc = "done" =>
                  /\ imp[w].result = "False"
                  /\ Len(object_errors) = imp[w].errors_before + 1

\* C9: an attempt makes at most one adapter write; when that call raises,
\* one object error with stage Import is recorded against the object, the
\* attempt returns False and the store is as the call found it (no retry).
C9_AdapterErrorRecordedOnce ==
    \A w \in Workers :
        /\ imp[w].calls <= 1
        /\ (imp[w].pc = "done" /\ imp[w].calls = 1 /\ imp[w].result = "False") =>
              /\ object_errors =
                    Append(SubSeq(object_errors, 1, imp[w].errors_before),
                           [obj |-> imp[w].harvest_object, stage |-> "Import"])
              /\ packages = imp[w].store_at_check
        /\ (imp[w].pc = "done" /\ imp[w].calls = 1 /\ imp[w].result = "True") =>
              Len(object_errors) = imp[w].errors_before

\* C9 witness: an attempt whose adapter call raised
C9_Witness ==
    /\ imp[1].pc = "done"
    /\ imp[1].calls = 1
    /\ imp[1].result = "False"

\* C10: two concurrent attempts for one guid that both ran their lookup
\* while one object of the guid was current, before either wrote, both
\* observed that prior-current object.
C10_BothObservePriorCurrent ==
    \A w1, w2 \in Workers :
        (/\ w1 # w2
         /\ imp[w1].pc = "flip_previous"
         /\ imp[w2].pc = "flip_previous"
         /\ objects[imp[w1].harvest_object].guid
               = objects[imp[w2].harvest_object].guid
         /\ Cardinality(imp[w1].current_before) = 1
         /\ imp[w2].current_before = imp[w1].current_before)
        => /\ imp[w1].previous_object \in imp[w1].current_before
           /\ imp[w2].previous_object = imp[w1].previous_object


\* An object import_stage is to reject: absent, or with empty content
Rejected(o) == o = None \/ objects[o].content \in {NoContent, EmptyContent}

\* C11: an import_stage call for an absent object or for an object whose
\* content is empty ends by returning False, without an exception, with no
\* current flag written and no package_create or package_update call.
C11_RejectsAbsentOrEmpty ==
    \A w \in Workers :
        (imp[w].pc \in {"done", "raised"} /\ Rejected(imp[w].harvest_object))
        => /\ imp[w].pc = "done"
           /\ imp[w].result = "False"
           /\ imp[w].calls = 0
           /\ imp[w].session = {}

\* C12: on the update path the record handed to package_update carries the
\* id of the record the existence check matched.
C12_UpdateCarriesMatchedId ==
    \A w \in Workers :
        (imp[w].pc = "done" /\ imp[w].call = "update") =>
            /\ "id" \in DOMAIN imp[w].package_dict
            /\ imp[w].package_dict["id"] = imp[w].existing_dataset


\* The entries of tags followed by those of domain_tags, as the catalog
\* sent them
InputTags ==
    Get(build_in.res.classification, "tags", <<>>)
        \o Get(build_in.res.classification, "domain_tags", <<>>)

\* C13: the tag list built from a descriptor's tags and domain_tags holds
\* the normalized form of every input tag, and no tag name more than once,
\* also when a tag occurs in both lists or twice in one list.
C13_TagsDeduplicated ==
    build_out.status = "built" =>
        LET tags == build_out.package_dict.tags
        IN /\ \A i \in 1..Len(InputTags) :
                  \E j \in 1..Len(tags) : tags[j].name = munge_tag(InputTags[i])
           /\ \A i, j \in 1..Len(tags) :
                  i # j => tags[i].name # tags[j].name

\* C14: the record built for a valid descriptor has exactly one resource,
\* of format CSV, whose URL is
\* https://{hostname}/api/views/{id}/rows.csv?accessType=DOWNLOAD with the
\* hostname of the harvest source URL and the descriptor's resource.id.
C14_OneCsvDownloadResource ==
    build_out.status = "built" =>
        LET resources == build_out.package_dict.resources
            url == build_in.source_url
            hostname == IF url.host = "Data.Example.com"
                        THEN "data.example.com" ELSE url.host
        IN /\ Len(resources) = 1
           /\ DOMAIN resources[1] = {"url", "format"}
           /\ resources[1].format = "CSV"
           /\ resources[1].url =
                  "https://" \o hostname \o "/api/views/" \o build_in.res.id
                      \o "/rows.csv?accessType=DOWNLOAD"

C14_Witness ==
    /\ build_out.status = "built"
    /\ build_in.source_url.port = ":8443"
    /\ build_in.res.id = "g1"
    /\ build_out.package_dict.resources[1].url =
           "https://data.example.com/api/views/g1/rows.csv?accessType=DOWNLOAD"

\* C15: the k-th request of a gather_stage call (k from 0) has offset
\* k * 100 whatever the earlier pages held, a request follows only a
\* non-empty page, and none follows a page that is empty or failed.
C15_OffsetsStepByPageSize ==
    /\ Len(g.offsets) = Len(g.pages)
    /\ \A k \in 1..Len(g.offsets) : g.offsets[k] = (k - 1) * 100
    /\ \A k \in 1..(Len(g.pages) - 1) :
           g.pages[k].kind = "results" /\ Len(g.pages[k].results) > 0
    /\ (g.pc = "request" /\ Len(g.pages) > 0) =>
           /\ g.pages[Len(g.pages)].kind = "results"
           /\ Len(g.pages[Len(g.pages)].results) > 0
           /\ g.datasets = <<>>

\* C15 witness: a third request, at offset 200, after two pages of one
\* descriptor each
C15_Witness ==
    /\ Len(g.offsets) = 3
    /\ g.offsets[3] = 200
    /\ Len(g.pages[1].results) = 1
    /\ Len(g.pages[2].results) = 1

\* C16: gather_stage creates exactly one Harvest Object per descriptor the
\* Pager yielded, with the descriptor's resource.id as guid, keeps their ids
\* in yield order, and leaves every new object's current flag unset.
C16_OneObjectPerYieldedDescriptor ==
    g.pc # "idle" =>
        /\ Len(objects) = g.objs_before + Len(g.yielded)
        /\ Len(g.obj_ids) = Len(g.yielded)
        /\ \A k \in 1..Len(g.obj_ids) :
               /\ g.obj_ids[k] = g.objs_before + k
               /\ g.obj_ids[k] \in DOMAIN objects
               /\ objects[g.obj_ids[k]].guid = g.yielded[k].id
               /\ objects[g.obj_ids[k]].content = json_dumps(g.yielded[k])
               /\ ~objects[g.obj_ids[k]].current

\* C17: a Harvest Object that cannot be saved is fatal to that object only:
\* gather_stage does not end in the exception of the save, it goes on to
\* the remaining descriptors and returns the ids.
C17_SaveFailureSkipsOneObject ==
    g.save_failed => g.pc # "raised"

\* C18: with a finite catalog and every request returning, a gather_stage
\* call that has started ends: the Pager stops at the first page that is
\* empty or failed.
C18_GatherTerminates ==
    (g.pc \in {"request", "make"}) ~> (g.pc \in {"done", "raised"})

\* C18 witness: a gather that needed every request up to the end of the
\* catalog and stopped at the empty page there
C18_Witness ==
    /\ g.pc = "done"
    /\ Len(g.pages) = 3
    /\ g.pages[3] = [kind |-> "results", results |-> <<>>]
    /\ Len(g.yielded) = 2

\* The attempt of worker w passed the checks of lines 237-245
PassedValidation(w) ==
    /\ imp[w].harvest_object # None
    /\ ~RejectsContent(objects[imp[w].harvest_object].content)

=============================================================================
